---- MODULE Spec2Model ----
(***************************************************************************)
(* A model of r.py: a scanner of Bitcoin blocks for reused ECDSA r-values. *)
(*                                                                         *)
(*   get_with_backoff   the retry loop around one HTTP request             *)
(*   extract_r_values   the single-pass DER parser over a hex string       *)
(*   scan_blocks, main  the block/transaction/input traversal and the      *)
(*                      r_map / repeated tables                            *)
(*                                                                         *)
(* A hex string is a sequence of one-character strings.  Delays are whole  *)
(* seconds.  Three specifications share the actions: Spec (a whole scan),  *)
(* SpecFetch (one get_with_backoff call, any PAUSE and retries) and        *)
(* SpecExtract (one extract_r_values call over a large set of scripts).    *)
(***************************************************************************)
EXTENDS Integers, Sequences, FiniteSets, TLC

VARIABLES
    PAUSE,          \* module global PAUSE (seconds)
    \* ---- get_with_backoff ----
    url,            \* which resource is being fetched
    retries,        \* parameter retries
    attempt,        \* loop variable of `for attempt in range(retries)`
    delay,          \* local delay
    fpc,            \* "idle" | "loop" | "returned" | "raised"
    fresult,        \* the value returned (None when the loop falls through)
    slept,          \* history: the arguments of time.sleep inside this call
    nreq,           \* history: requests issued by this call
    nfail,          \* history: attempts of this call that failed
    \* ---- extract_r_values ----
    sigscript_hex,  \* parameter
    i,              \* cursor (in hex characters)
    rvals,          \* result list
    epc,            \* "idle" | "loop" | "done" | "raised"
    rraw,           \* history: rhex before lstrip, one per element of rvals
    inp,            \* history: how the script handed to the extractor was built
    \* ---- scan_blocks / main ----
    pc,             \* position in scan_blocks / main
    h,              \* block height being scanned
    block_hash,
    txids,          \* list of transaction ids of the current block
    ti,             \* index of the current txid in txids (0-based)
    tx,             \* the current transaction's JSON
    vi,             \* index of the current input in tx["vin"] (0-based)
    ri,             \* index of the current r-value in the extractor's result
    r_map,          \* dict: r-value -> txid of its first occurrence
    repeated,       \* defaultdict(list): r-value -> list of (txid, vin txid)
    rep_keys,       \* the keys of repeated in insertion order
    obs,            \* history: every observation handed to the correlator
    served,         \* history: inputs served by the data source so far
    paced,          \* history: the arguments of time.sleep in scan_blocks
    output          \* what main did: "none" | "file" | "no_reuse"

fetchVars   == <<url, retries, attempt, delay, fpc, fresult, slept, nreq, nfail>>
extractVars == <<sigscript_hex, i, rvals, epc, rraw, inp>>
scanVars    == <<pc, h, block_hash, txids, ti, tx, vi, ri, r_map, repeated,
                 rep_keys, obs, served, paced, output>>
vars        == <<PAUSE, fetchVars, extractVars, scanVars>>

-----------------------------------------------------------------------------
(* Bounds of the model *)

MaxPause      == 62    \* PAUSE ranges over 1..MaxPause in SpecFetch
MaxRetries    == 4     \* retries ranges over 0..MaxRetries (and the default)
MaxJunkLen    == 6     \* longest arbitrary hex string given to the extractor
MaxRLen       == 2     \* longest r field, in bytes, of a generated signature
NumBlocks     == 2     \* heights scanned by Spec
MaxInputs     == 2     \* inputs the data source serves in one scan

(* Program constants *)

START_BLOCK    == 69500
END_BLOCK      == START_BLOCK + NumBlocks - 1
DefaultPause   == 1
DefaultRetries == 10
DelayCap       == 60

-----------------------------------------------------------------------------
(* Helpers *)

Min(a, b) == IF a < b THEN a ELSE b
Max(a, b) == IF a > b THEN a ELSE b

None == [kind |-> "None"]

\* d.get(k, default)
Get(d, k, default) == IF k \in DOMAIN d THEN d[k] ELSE default

NoOutput == [kind |-> "none", lines |-> <<>>]

HexDigits == <<"0","1","2","3","4","5","6","7","8","9","a","b","c","d","e","f">>

\* the value of one hex digit
HexTable ==
    [c \in { HexDigits[k] : k \in 1..16 } |->
        (CHOOSE k \in 1..16 : HexDigits[k] = c) - 1]

HexVal(c) == HexTable[c]

\* Python's s[a:b] for 0 <= a
Slice(s, a, b) ==
    IF a >= Len(s) \/ b <= a THEN <<>> ELSE SubSeq(s, a + 1, Min(b, Len(s)))

\* int(s, 16) for a non-empty string of hex digits (int("", 16) raises)
RECURSIVE ParseHex(_)
ParseHex(s) ==
    IF Len(s) = 0 THEN 0
    ELSE 16 * ParseHex(SubSeq(s, 1, Len(s) - 1)) + HexVal(s[Len(s)])

CanParse(s) == Len(s) > 0

\* variant of LStrip: every "0" is removed, not only the leading ones
RECURSIVE MutLStripAll(_)
MutLStripAll(s) ==
    IF s = <<>> THEN <<>>
    ELSE IF Head(s) = "0" THEN MutLStripAll(Tail(s))
    ELSE <<Head(s)>> \o MutLStripAll(Tail(s))

\* s.lstrip("0")
RECURSIVE LStrip(_)
LStrip(s) ==
    IF s # <<>> /\ Head(s) = "0" THEN LStrip(Tail(s)) ELSE s

RECURSIVE SumSeq(_)
SumSeq(s) == IF s = <<>> THEN 0 ELSE Head(s) + SumSeq(Tail(s))

RECURSIVE Pow2(_)
Pow2(n) == IF n = 0 THEN 1 ELSE 2 * Pow2(n - 1)

-----------------------------------------------------------------------------
(* The data source: what a successful request can return *)

HexByte(n) == <<HexDigits[(n \div 16) + 1], HexDigits[(n % 16) + 1]>>

\* A DER ECDSA signature: 0x30 L 0x02 len(r) r 0x02 len(s) s
DerSig(r, s) ==
    <<"3", "0">> \o HexByte(4 + (Len(r) \div 2) + (Len(s) \div 2))
                 \o <<"0", "2">> \o HexByte(Len(r) \div 2) \o r
                 \o <<"0", "2">> \o HexByte(Len(s) \div 2) \o s

SigS == <<"0", "7">>

R_00ab12 == <<"0","0","a","b","1","2">>
R_ab12   == <<"a","b","1","2">>
R_ab1200 == <<"a","b","1","2","0","0">>

\* The inputs the data source serves during a scan: a lone signature; a
\* signature followed by a sighash byte and a public key push; three
\* signatures back to back; an empty script; no script at all; a signature
\* cut off after its INTEGER tag
Vins ==
    { [scriptsig |-> DerSig(R_00ab12, SigS), txid |-> "P1"],
      [scriptsig |-> DerSig(R_ab12, SigS) \o <<"0","1","2","1","0","3">>,
       txid |-> "P2"],
      [scriptsig |-> DerSig(R_ab12, SigS) \o DerSig(R_00ab12, SigS)
                        \o DerSig(R_ab1200, SigS),
       txid |-> "P3"],
      [scriptsig |-> <<>>, txid |-> "P1"],
      [txid |-> "P2"],
      [scriptsig |-> <<"3","0","0","1","0","2">>, txid |-> "P3"] }

VinLists(n) ==
    UNION { [1..k -> Vins] : k \in 0..n }

\* /block/<hash>/txids answers with a list of the block's transaction ids;
\* a transaction id names its block, so no two blocks share one
TxNames == <<"a", "b">>

TxidLists(height) ==
    { [j \in 1..k |-> <<height, TxNames[j]>>] : k \in 0..Len(TxNames) }

\* /block-height/<h> answers with the hash itself or with an object holding it
BlockBodies == { [kind |-> "str", id |-> "bh"], [kind |-> "dict", id |-> "bh"] }

\* /tx/<txid> answers with an object; the inputs left to serve bound its "vin"
TxBodies == { [vin |-> v] : v \in VinLists(MaxInputs - served) }

\* r.json(): the parsed body of a successful response.  The caller reads its
\* content (BlockBodies, TxidLists, TxBodies) where it first uses it.
Json == [kind |-> "json"]

-----------------------------------------------------------------------------
(* get_with_backoff *)

\* variant of InitialDelay: the first delay is capped too
MutInitialDelayCapped(p) == Min(p, DelayCap)

\* delay = PAUSE
InitialDelay(p) == p

\* variant of NextDelay: the cap is forgotten
MutNextDelayNoCap(d) == d * 2

\* delay = min(delay * 2, 60)
NextDelay(d) == Min(d * 2, DelayCap)

\* variant of FetchCall: delay is kept between calls, as a global would be
MutFetchCallKeepsDelay(u, n) ==
    /\ url' = u
    /\ retries' = n
    /\ attempt' = 0
    /\ delay' = IF delay = 0 THEN PAUSE ELSE delay
    /\ fpc' = "loop"
    /\ fresult' = None
    /\ slept' = <<>>
    /\ nreq' = 0
    /\ nfail' = 0

\* the call get_with_backoff(u, retries = n): the state on entry to the loop
FetchCall(u, n) ==
    /\ url' = u
    /\ retries' = n
    /\ attempt' = 0
    /\ delay' = InitialDelay(PAUSE)
    /\ fpc' = "loop"
    /\ fresult' = None
    /\ slept' = <<>>
    /\ nreq' = 0
    /\ nfail' = 0

\* the caller has taken the result; the call's locals are gone
FetchGone ==
    /\ url' = "" /\ retries' = 0 /\ attempt' = 0 /\ delay' = 0
    /\ fpc' = "idle" /\ fresult' = None /\ slept' = <<>>
    /\ nreq' = 0 /\ nfail' = 0

\* time.sleep(delay); delay = min(delay * 2, 60); next iteration
SleepAndBackOff ==
    /\ slept' = Append(slept, delay)
    /\ delay' = NextDelay(delay)
    /\ attempt' = attempt + 1

\* the request succeeds: return r.json()
AttemptOk ==
    /\ fpc = "loop" /\ attempt < retries
    /\ fresult' = Json
    /\ fpc' = "returned"
    /\ nreq' = nreq + 1
    /\ UNCHANGED <<url, retries, attempt, delay, slept, nfail>>
    /\ UNCHANGED <<PAUSE, extractVars, scanVars>>

\* r.status_code == 429: sleep, back off, continue
Attempt429 ==
    /\ fpc = "loop" /\ attempt < retries
    /\ SleepAndBackOff
    /\ nreq' = nreq + 1
    /\ nfail' = nfail + 1
    /\ UNCHANGED <<url, retries, fpc, fresult>>
    /\ UNCHANGED <<PAUSE, extractVars, scanVars>>

\* requests.get, raise_for_status or r.json() raises
AttemptError ==
    /\ fpc = "loop" /\ attempt < retries
    /\ nreq' = nreq + 1
    /\ nfail' = nfail + 1
    /\ IF attempt = retries - 1
       THEN /\ fpc' = "raised"
            /\ UNCHANGED <<attempt, delay, slept>>
       ELSE /\ SleepAndBackOff
            /\ fpc' = fpc
    /\ UNCHANGED <<url, retries, fresult>>
    /\ UNCHANGED <<PAUSE, extractVars, scanVars>>

\* range(retries) is exhausted: the function ends without a return statement
FallThrough ==
    /\ fpc = "loop" /\ attempt >= retries
    /\ fpc' = "returned"
    /\ fresult' = None
    /\ UNCHANGED <<url, retries, attempt, delay, slept, nreq, nfail>>
    /\ UNCHANGED <<PAUSE, extractVars, scanVars>>

-----------------------------------------------------------------------------
(* extract_r_values *)

\* while i + 4 < len(sigscript_hex)
LoopGuard(s, c) == c + 4 < Len(s)

\* sigscript_hex[i:i+2] == "30"
TagOk(s, c) == Slice(s, c, c + 2) = <<"3", "0">>

\* variant of TotalLen: the length is taken in bytes, not in hex characters
MutTotalLenBytes(s, c) == ParseHex(Slice(s, c + 2, c + 4))

\* total_len = int(sigscript_hex[i+2:i+4], 16) * 2
TotalLen(s, c) == ParseHex(Slice(s, c + 2, c + 4)) * 2

\* der = sigscript_hex[i:i+4+total_len]
Der(s, c) == Slice(s, c, c + 4 + TotalLen(s, c))

\* der[4:6] == "02"
HasInteger(der) == Slice(der, 4, 6) = <<"0", "2">>

\* der[6:8]
RLenField(der) == Slice(der, 6, 8)

\* variant of RHex: the INTEGER length is ignored
MutRHexToEnd(der) == Slice(der, 8, Len(der))

\* rlen = int(der[6:8], 16) * 2; rhex = der[8:8+rlen]
RHex(der) == Slice(der, 8, 8 + ParseHex(RLenField(der)) * 2)

\* variant of Normalize: rhex.replace("0", "")
MutNormalizeAllZeros(rhex) == MutLStripAll(rhex)

\* rhex.lstrip("0")
Normalize(rhex) == LStrip(rhex)

\* variant of Advance: the tag and length bytes are not counted
MutAdvanceNoHeader(s, c) == c + TotalLen(s, c)

\* i += 4 + total_len
Advance(s, c) == c + 4 + TotalLen(s, c)

\* extract_r_values as a function of the script, from cursor c with the
\* r-values acc collected so far: the list returned, or ok = FALSE when
\* int(der[6:8], 16) raises
RECURSIVE ExtractFrom(_, _, _)
ExtractFrom(s, c, acc) ==
    IF ~LoopGuard(s, c) \/ ~TagOk(s, c) THEN [ok |-> TRUE, rs |-> acc]
    ELSE LET der == Der(s, c) IN
         IF ~HasInteger(der) THEN ExtractFrom(s, Advance(s, c), acc)
         ELSE IF ~CanParse(RLenField(der)) THEN [ok |-> FALSE, rs |-> <<>>]
         ELSE ExtractFrom(s, Advance(s, c), Append(acc, Normalize(RHex(der))))

extract_r_values(s) == ExtractFrom(s, 0, <<>>)

\* the call extract_r_values(s): the state on entry to the loop
ExtractCall(s) ==
    /\ sigscript_hex' = s
    /\ i' = 0
    /\ rvals' = <<>>
    /\ rraw' = <<>>
    /\ epc' = "loop"

NoInput == [kind |-> "none", rs |-> <<>>]

\* one iteration of the loop that completes
ExtractIter ==
    /\ epc = "loop"
    /\ LoopGuard(sigscript_hex, i)
    /\ TagOk(sigscript_hex, i)
    /\ LET der == Der(sigscript_hex, i) IN
         /\ HasInteger(der) => CanParse(RLenField(der))
         /\ IF HasInteger(der)
            THEN /\ rvals' = Append(rvals, Normalize(RHex(der)))
                 /\ rraw' = Append(rraw, RHex(der))
            ELSE UNCHANGED <<rvals, rraw>>
    /\ i' = Advance(sigscript_hex, i)
    /\ UNCHANGED <<sigscript_hex, epc, inp>>
    /\ UNCHANGED <<PAUSE, fetchVars, scanVars>>

\* int(der[6:8], 16) with der[6:8] == "": ValueError
ExtractValueError ==
    /\ epc = "loop"
    /\ LoopGuard(sigscript_hex, i)
    /\ TagOk(sigscript_hex, i)
    /\ LET der == Der(sigscript_hex, i) IN
         HasInteger(der) /\ ~CanParse(RLenField(der))
    /\ epc' = "raised"
    /\ UNCHANGED <<sigscript_hex, i, rvals, rraw, inp>>
    /\ UNCHANGED <<PAUSE, fetchVars, scanVars>>

\* variant of ExtractBreak: the byte is skipped and the scan goes on
MutExtractBreakSkipsByte ==
    /\ epc = "loop"
    /\ LoopGuard(sigscript_hex, i)
    /\ ~TagOk(sigscript_hex, i)
    /\ i' = i + 2
    /\ UNCHANGED <<sigscript_hex, epc, rvals, rraw, inp>>
    /\ UNCHANGED <<PAUSE, fetchVars, scanVars>>

\* the byte at the cursor is not 0x30: break, return rvals
ExtractBreak ==
    /\ epc = "loop"
    /\ LoopGuard(sigscript_hex, i)
    /\ ~TagOk(sigscript_hex, i)
    /\ epc' = "done"
    /\ UNCHANGED <<sigscript_hex, i, rvals, rraw, inp>>
    /\ UNCHANGED <<PAUSE, fetchVars, scanVars>>

\* the loop condition fails: return rvals
ExtractReturn ==
    /\ epc = "loop"
    /\ ~LoopGuard(sigscript_hex, i)
    /\ epc' = "done"
    /\ UNCHANGED <<sigscript_hex, i, rvals, rraw, inp>>
    /\ UNCHANGED <<PAUSE, fetchVars, scanVars>>

-----------------------------------------------------------------------------
(* States in which a part of the program is not running *)

FetchIdle ==
    /\ url = "" /\ retries = 0 /\ attempt = 0 /\ delay = 0
    /\ fpc = "idle" /\ fresult = None /\ slept = <<>>
    /\ nreq = 0 /\ nfail = 0

ExtractIdle ==
    /\ sigscript_hex = <<>> /\ i = 0 /\ rvals = <<>> /\ rraw = <<>>
    /\ epc = "idle" /\ inp = NoInput

ScanIdle ==
    /\ pc = "idle" /\ h = START_BLOCK /\ block_hash = "" /\ txids = <<>>
    /\ ti = 0 /\ tx = None /\ vi = 0 /\ ri = 0
    /\ r_map = <<>> /\ repeated = <<>> /\ rep_keys = <<>> /\ obs = <<>>
    /\ served = 0 /\ paced = <<>> /\ output = NoOutput

-----------------------------------------------------------------------------
(* SpecFetch: one call get_with_backoff(url, retries) under any PAUSE *)

RetryValues == (0..MaxRetries) \cup {DefaultRetries}

InitFetch ==
    /\ PAUSE \in 1..MaxPause
    /\ url = "block-height"
    /\ retries \in RetryValues
    /\ attempt = 0
    /\ delay = InitialDelay(PAUSE)
    /\ fpc = "loop"
    /\ fresult = None
    /\ slept = <<>>
    /\ nreq = 0
    /\ nfail = 0
    /\ ExtractIdle
    /\ ScanIdle

NextFetch ==
    \/ AttemptOk
    \/ Attempt429
    \/ AttemptError
    \/ FallThrough

SpecFetch == InitFetch /\ [][NextFetch]_vars

-----------------------------------------------------------------------------
(* SpecExtract: one call extract_r_values(script) over generated scripts *)

RBytes == { <<"0","0">>, <<"0","a">>, <<"a","0">>, <<"3","0">> }

RECURSIVE ByteStrings(_)
ByteStrings(n) ==
    IF n = 0 THEN { <<>> }
    ELSE { b \o t : b \in RBytes, t \in ByteStrings(n - 1) }

RFields == UNION { ByteStrings(k) : k \in 1..MaxRLen }

SFields == { SigS, <<"3","0">> }

\* what may follow a single signature: nothing, or bytes not starting with 0x30
Trailers ==
    { <<>>, <<"0","1">>, <<"0","1","2","1">>,
      <<"0","1","2","1","0","3","3","0">>, <<"0","0","3","0","0","0">> }

SigHashAll == <<"0","1">>

\* a data push of script: one length byte, then the bytes
Push(x) == HexByte(Len(x) \div 2) \o x

JunkChars == {"0", "1", "2", "3"}

\* one well-formed signature, then a trailer
SingleCase ==
    \E r \in RFields, s \in SFields, t \in Trailers :
        /\ sigscript_hex = DerSig(r, s) \o t
        /\ inp = [kind |-> "single", rs |-> <<r>>]

\* two well-formed signatures back to back
DoubleCase ==
    \E r1 \in RFields, r2 \in RFields :
        /\ sigscript_hex = DerSig(r1, SigS) \o DerSig(r2, SigS)
        /\ inp = [kind |-> "double", rs |-> <<r1, r2>>]

\* OP_0 <sig1 sighash> <sig2 sighash>: the script of a 2-of-n multisig input
MultisigCase ==
    \E r1 \in RFields, r2 \in ByteStrings(1) :
        /\ sigscript_hex = <<"0","0">> \o Push(DerSig(r1, SigS) \o SigHashAll)
                                       \o Push(DerSig(r2, SigS) \o SigHashAll)
        /\ inp = [kind |-> "multisig", rs |-> <<r1, r2>>]

\* a proper prefix of a well-formed signature
TruncatedCase ==
    \E r \in RFields :
        \E n \in 0..(Len(DerSig(r, SigS)) - 1) :
            /\ sigscript_hex = SubSeq(DerSig(r, SigS), 1, n)
            /\ inp = [kind |-> "truncated", rs |-> <<r>>]

\* any short string over a few hex digits
JunkCase ==
    \E k \in 0..MaxJunkLen :
        \E s \in [1..k -> JunkChars] :
            /\ sigscript_hex = s
            /\ inp = [kind |-> "junk", rs |-> <<>>]

InitExtract ==
    /\ PAUSE = DefaultPause
    /\ FetchIdle
    /\ ScanIdle
    /\ \/ SingleCase
       \/ DoubleCase
       \/ MultisigCase
       \/ TruncatedCase
       \/ JunkCase
    /\ i = 0
    /\ rvals = <<>>
    /\ rraw = <<>>
    /\ epc = "loop"

NextExtract ==
    \/ ExtractIter
    \/ ExtractValueError
    \/ ExtractBreak
    \/ ExtractReturn

SpecExtract == InitExtract /\ [][NextExtract]_vars


-----------------------------------------------------------------------------
(* scan_blocks and main *)

\* d[k] = v
Put(d, k, v) == [x \in DOMAIN d \cup {k} |-> IF x = k THEN v ELSE d[x]]

\* variant of RMapAfter: the latest occurrence replaces the first
MutRMapOverwrite(m, rhex, txid) == Put(m, rhex, txid)

\* if rhex in r_map: ... else: r_map[rhex] = txid
RMapAfter(m, rhex, txid) ==
    IF rhex \in DOMAIN m THEN m ELSE Put(m, rhex, txid)

\* variant of RepeatedAfter: repeated[rhex].insert(0, ...), newest pair first
MutRepeatedPrepend(rep, m, rhex, txid, ref) ==
    IF rhex \in DOMAIN m
    THEN Put(rep, rhex, << <<txid, ref>> >> \o Get(rep, rhex, <<>>))
    ELSE rep

\* variant of RepeatedAfter: a repeat inside the first transaction is skipped
MutRepeatedOtherTxOnly(rep, m, rhex, txid, ref) ==
    IF rhex \in DOMAIN m /\ m[rhex] # txid
    THEN Put(rep, rhex, Append(Get(rep, rhex, <<>>), <<txid, ref>>))
    ELSE rep

\* if rhex in r_map: repeated[rhex].append((txid, vin.get("txid", "")))
RepeatedAfter(rep, m, rhex, txid, ref) ==
    IF rhex \in DOMAIN m
    THEN Put(rep, rhex, Append(Get(rep, rhex, <<>>), <<txid, ref>>))
    ELSE rep

\* variant of FileLines: the "r=" header is written again before every pair
RECURSIVE MutFileLinesHeaderPerPair(_, _)
MutFileLinesHeaderPerPair(keys, rep) ==
    IF keys = <<>> THEN <<>>
    ELSE [j \in 1..(2 * Len(rep[Head(keys)])) |->
            IF j % 2 = 1
            THEN [line |-> "r=", r |-> Head(keys), pair |-> <<>>]
            ELSE [line |-> "seen in", r |-> <<>>,
                  pair |-> rep[Head(keys)][j \div 2]]]
         \o MutFileLinesHeaderPerPair(Tail(keys), rep)

\* the lines main writes: an "r=" header per key, a "seen in" line per pair
RECURSIVE FileLines(_, _)
FileLines(keys, rep) ==
    IF keys = <<>> THEN <<>>
    ELSE <<[line |-> "r=", r |-> Head(keys), pair |-> <<>>]>>
         \o [j \in 1..Len(rep[Head(keys)]) |->
               [line |-> "seen in", r |-> <<>>, pair |-> rep[Head(keys)][j]]]
         \o FileLines(Tail(keys), rep)

ExtractGone ==
    /\ sigscript_hex' = <<>> /\ i' = 0 /\ rvals' = <<>> /\ rraw' = <<>>
    /\ epc' = "idle" /\ inp' = NoInput

\* variant of Crash: the exception is caught and the partial result returned
MutCrashSalvages ==
    /\ pc' = "main"
    /\ UNCHANGED <<h, block_hash, txids, ti, tx, vi, ri, r_map, repeated,
                   rep_keys, obs, served, paced, output>>

\* an uncaught exception leaves scan_blocks and main
Crash ==
    /\ pc' = "crashed"
    /\ UNCHANGED <<h, block_hash, txids, ti, tx, vi, ri, r_map, repeated,
                   rep_keys, obs, served, paced, output>>

\* for h in range(start, end + 1): block = get_with_backoff(.../block-height/h)
BlockBegin ==
    /\ pc = "for_h" /\ h <= END_BLOCK
    /\ FetchCall("block-height", DefaultRetries)
    /\ pc' = "get_block"
    /\ UNCHANGED <<h, block_hash, txids, ti, tx, vi, ri, r_map, repeated,
                   rep_keys, obs, served, paced, output>>
    /\ UNCHANGED <<PAUSE, extractVars>>

\* block_hash = ...; txids = get_with_backoff(.../block/<hash>/txids)
BlockReturned ==
    /\ pc = "get_block" /\ fpc = "returned"
    /\ IF fresult.kind = "None"
       THEN Crash /\ FetchGone
       ELSE /\ \E block \in BlockBodies :
                 block_hash' = IF block.kind = "str" THEN block.id
                               ELSE Get(block, "id", "")
            /\ FetchCall("txids", DefaultRetries)
            /\ pc' = "get_txids"
            /\ UNCHANGED <<h, txids, ti, tx, vi, ri, r_map, repeated,
                           rep_keys, obs, served, paced, output>>
    /\ UNCHANGED <<PAUSE, extractVars>>

\* for txid in txids
TxidsReturned ==
    /\ pc = "get_txids" /\ fpc = "returned"
    /\ IF fresult.kind = "None"
       THEN Crash
       ELSE /\ txids' \in TxidLists(h)
            /\ ti' = 0
            /\ pc' = "for_txid"
            /\ UNCHANGED <<h, block_hash, tx, vi, ri, r_map, repeated,
                           rep_keys, obs, served, paced, output>>
    /\ FetchGone
    /\ UNCHANGED <<PAUSE, extractVars>>

\* tx = get_with_backoff(.../tx/<txid>)
TxBegin ==
    /\ pc = "for_txid" /\ ti < Len(txids)
    /\ FetchCall("tx", DefaultRetries)
    /\ pc' = "get_tx"
    /\ UNCHANGED <<h, block_hash, txids, ti, tx, vi, ri, r_map, repeated,
                   rep_keys, obs, served, paced, output>>
    /\ UNCHANGED <<PAUSE, extractVars>>

\* for vin in tx.get("vin", [])
TxReturned ==
    /\ pc = "get_tx" /\ fpc = "returned"
    /\ IF fresult.kind = "None"
       THEN Crash
       ELSE /\ tx' \in TxBodies
            /\ vi' = 0
            /\ served' = served + Len(Get(tx', "vin", <<>>))
            /\ pc' = "for_vin"
            /\ UNCHANGED <<h, block_hash, txids, ti, ri, r_map, repeated,
                           rep_keys, obs, paced, output>>
    /\ FetchGone
    /\ UNCHANGED <<PAUSE, extractVars>>

\* get_with_backoff raised: nothing in scan_blocks or main catches it
FetchRaised ==
    /\ pc \in {"get_block", "get_txids", "get_tx"} /\ fpc = "raised"
    /\ Crash
    /\ FetchGone
    /\ UNCHANGED <<PAUSE, extractVars>>

\* variant of VinStep: vin["scriptsig"], a missing script is a KeyError
MutVinStepKeyError ==
    /\ pc = "for_vin" /\ vi < Len(Get(tx, "vin", <<>>))
    /\ IF "scriptsig" \notin DOMAIN tx.vin[vi + 1]
       THEN /\ pc' = "crashed"
            /\ vi' = vi
            /\ UNCHANGED extractVars
       ELSE LET sig == tx.vin[vi + 1].scriptsig IN
            IF sig # <<>>
            THEN /\ ExtractCall(sig)
                 /\ inp' = [kind |-> "scan", rs |-> <<>>]
                 /\ pc' = "extracting"
                 /\ vi' = vi
            ELSE /\ vi' = vi + 1
                 /\ pc' = pc
                 /\ UNCHANGED extractVars
    /\ UNCHANGED <<h, block_hash, txids, ti, tx, ri, r_map, repeated,
                   rep_keys, obs, served, paced, output>>
    /\ UNCHANGED <<PAUSE, fetchVars>>

\* sig = vin.get("scriptsig", ""); if sig: ... extract_r_values(sig)
VinStep ==
    /\ pc = "for_vin" /\ vi < Len(Get(tx, "vin", <<>>))
    /\ LET sig == Get(tx.vin[vi + 1], "scriptsig", <<>>) IN
         IF sig # <<>>
         THEN /\ ExtractCall(sig)
              /\ inp' = [kind |-> "scan", rs |-> <<>>]
              /\ pc' = "extracting"
              /\ vi' = vi
         ELSE /\ vi' = vi + 1
              /\ pc' = pc
              /\ UNCHANGED extractVars
    /\ UNCHANGED <<h, block_hash, txids, ti, tx, ri, r_map, repeated,
                   rep_keys, obs, served, paced, output>>
    /\ UNCHANGED <<PAUSE, fetchVars>>

\* for rhex in extract_r_values(sig): the list has been returned
ExtractReturned ==
    /\ pc = "extracting" /\ epc = "done"
    /\ ri' = 0
    /\ pc' = "for_rhex"
    /\ sigscript_hex' = <<>> /\ i' = 0 /\ epc' = "idle" /\ inp' = NoInput
    /\ UNCHANGED <<rvals, rraw>>
    /\ UNCHANGED <<h, block_hash, txids, ti, tx, vi, r_map, repeated,
                   rep_keys, obs, served, paced, output>>
    /\ UNCHANGED <<PAUSE, fetchVars>>

\* extract_r_values raised: nothing in scan_blocks or main catches it
ExtractRaised ==
    /\ pc = "extracting" /\ epc = "raised"
    /\ Crash
    /\ ExtractGone
    /\ UNCHANGED <<PAUSE, fetchVars>>

\* the body of `for rhex in ...`: one observation reaches the tables
Correlate ==
    /\ pc = "for_rhex" /\ ri < Len(rvals)
    /\ LET rhex == rvals[ri + 1]
           txid == txids[ti + 1]
           ref  == Get(tx.vin[vi + 1], "txid", "")
       IN /\ r_map' = RMapAfter(r_map, rhex, txid)
          /\ repeated' = RepeatedAfter(repeated, r_map, rhex, txid, ref)
          /\ rep_keys' = IF rhex \in DOMAIN repeated' /\ rhex \notin DOMAIN repeated
                         THEN Append(rep_keys, rhex) ELSE rep_keys
          /\ obs' = Append(obs, [raw |-> rraw[ri + 1], r |-> rhex,
                                 txid |-> txid, ref |-> ref])
    /\ ri' = ri + 1
    /\ UNCHANGED <<pc, h, block_hash, txids, ti, tx, vi, served, paced, output>>
    /\ UNCHANGED <<PAUSE, fetchVars, extractVars>>

\* the r-values of this input are exhausted: next input
RvalsEnd ==
    /\ pc = "for_rhex" /\ ri >= Len(rvals)
    /\ vi' = vi + 1
    /\ ri' = 0
    /\ pc' = "for_vin"
    /\ rvals' = <<>> /\ rraw' = <<>>
    /\ UNCHANGED <<sigscript_hex, i, epc, inp>>
    /\ UNCHANGED <<h, block_hash, txids, ti, tx, r_map, repeated,
                   rep_keys, obs, served, paced, output>>
    /\ UNCHANGED <<PAUSE, fetchVars>>

\* the inputs of this transaction are exhausted: next txid
VinsEnd ==
    /\ pc = "for_vin" /\ vi >= Len(Get(tx, "vin", <<>>))
    /\ ti' = ti + 1
    /\ vi' = 0
    /\ tx' = None
    /\ pc' = "for_txid"
    /\ UNCHANGED <<h, block_hash, txids, ri, r_map, repeated,
                   rep_keys, obs, served, paced, output>>
    /\ UNCHANGED <<PAUSE, fetchVars, extractVars>>

\* variant of BlockEnd: range(start, end + 1, 2), every other height is skipped
MutBlockEndSkipsHeight ==
    /\ pc = "for_txid" /\ ti >= Len(txids)
    /\ paced' = Append(paced, PAUSE)
    /\ h' = h + 2
    /\ ti' = 0
    /\ txids' = <<>>
    /\ block_hash' = ""
    /\ pc' = "for_h"
    /\ UNCHANGED <<tx, vi, ri, r_map, repeated, rep_keys, obs, served, output>>
    /\ UNCHANGED <<PAUSE, fetchVars, extractVars>>

\* the txids of this block are exhausted: time.sleep(PAUSE), next height
BlockEnd ==
    /\ pc = "for_txid" /\ ti >= Len(txids)
    /\ paced' = Append(paced, PAUSE)
    /\ h' = h + 1
    /\ ti' = 0
    /\ txids' = <<>>
    /\ block_hash' = ""
    /\ pc' = "for_h"
    /\ UNCHANGED <<tx, vi, ri, r_map, repeated, rep_keys, obs, served, output>>
    /\ UNCHANGED <<PAUSE, fetchVars, extractVars>>

\* range(start, end + 1) is exhausted: return repeated
ScanReturn ==
    /\ pc = "for_h" /\ h > END_BLOCK
    /\ pc' = "main"
    /\ UNCHANGED <<h, block_hash, txids, ti, tx, vi, ri, r_map, repeated,
                   rep_keys, obs, served, paced, output>>
    /\ UNCHANGED <<PAUSE, fetchVars, extractVars>>

\* if reps: write OUTPUT_FILE
MainWrite ==
    /\ pc = "main" /\ DOMAIN repeated # {}
    /\ output' = [kind |-> "file", lines |-> FileLines(rep_keys, repeated)]
    /\ pc' = "done"
    /\ UNCHANGED <<h, block_hash, txids, ti, tx, vi, ri, r_map, repeated,
                   rep_keys, obs, served, paced>>
    /\ UNCHANGED <<PAUSE, fetchVars, extractVars>>

\* else: print("No reused r-values found in this range.")
MainNoReuse ==
    /\ pc = "main" /\ DOMAIN repeated = {}
    /\ output' = [kind |-> "no_reuse", lines |-> <<>>]
    /\ pc' = "done"
    /\ UNCHANGED <<h, block_hash, txids, ti, tx, vi, ri, r_map, repeated,
                   rep_keys, obs, served, paced>>
    /\ UNCHANGED <<PAUSE, fetchVars, extractVars>>

-----------------------------------------------------------------------------
(* Spec: main() scanning START_BLOCK..END_BLOCK *)

Init ==
    /\ PAUSE = DefaultPause
    /\ FetchIdle
    /\ ExtractIdle
    /\ pc = "for_h" /\ h = START_BLOCK /\ block_hash = "" /\ txids = <<>>
    /\ ti = 0 /\ tx = None /\ vi = 0 /\ ri = 0
    /\ r_map = <<>> /\ repeated = <<>> /\ rep_keys = <<>> /\ obs = <<>>
    /\ served = 0 /\ paced = <<>> /\ output = NoOutput

Next ==
    \/ BlockBegin
    \/ BlockReturned
    \/ TxidsReturned
    \/ TxBegin
    \/ TxReturned
    \/ FetchRaised
    \/ AttemptOk
    \/ Attempt429
    \/ AttemptError
    \/ FallThrough
    \/ VinStep
    \/ ExtractIter
    \/ ExtractValueError
    \/ ExtractBreak
    \/ ExtractReturn
    \/ ExtractReturned
    \/ ExtractRaised
    \/ Correlate
    \/ RvalsEnd
    \/ VinsEnd
    \/ BlockEnd
    \/ ScanReturn
    \/ MainWrite
    \/ MainNoReuse

Spec == Init /\ [][Next]_vars


-----------------------------------------------------------------------------
(* Properties of the correlator (checked under Spec) *)

\* the observations of r-value R so far, in scan order
ObsOf(R) == SelectSeq(obs, LAMBDA o : o.r = R)

ObservedR == { obs[j].r : j \in 1..Len(obs) }

PairsOf(s) == [j \in 1..Len(s) |-> <<s[j].txid, s[j].ref>>]

TxidsOf(R) == { obs[j].txid : j \in { k \in 1..Len(obs) : obs[k].r = R } }

\* C1: for every r-value R observed n >= 1 times, r_map[R] is the txid of
\* the first observation of R, and repeated[R] is exactly the list of
\* (txid, referenced txid) pairs of the 2nd..n-th observations in scan
\* order; R is no key of repeated when n = 1.
C1_OrderLaw ==
    /\ DOMAIN r_map = ObservedR
    /\ \A R \in ObservedR :
         LET s == ObsOf(R) IN
           /\ r_map[R] = s[1].txid
           /\ IF Len(s) = 1
              THEN R \notin DOMAIN repeated
              ELSE R \in DOMAIN repeated /\ repeated[R] = PairsOf(Tail(s))

\* an r-value has been observed three times, in two transactions at least
C1_Witness ==
    \E R \in ObservedR :
        /\ Len(ObsOf(R)) >= 3
        /\ Cardinality(TxidsOf(R)) >= 2
        /\ Len(repeated[R]) = 2

\* a and b differ only by leading "0" characters
OnlyLeadingZerosApart(a, b) ==
    \/ /\ Len(a) >= Len(b)
       /\ SubSeq(a, Len(a) - Len(b) + 1, Len(a)) = b
       /\ \A j \in 1..(Len(a) - Len(b)) : a[j] = "0"
    \/ /\ Len(b) >= Len(a)
       /\ SubSeq(b, Len(b) - Len(a) + 1, Len(b)) = a
       /\ \A j \in 1..(Len(b) - Len(a)) : b[j] = "0"

\* C9: two raw r fields are the same RValue for the correlator iff their hex
\* strings differ only by leading "0" characters, iff they denote the same
\* unsigned big-endian integer; the correlator groups the observations
\* exactly by that integer; normalizing twice is normalizing once.
C9_Identity ==
    LET seen == { <<obs[j].raw, obs[j].r>> : j \in 1..Len(obs) } IN
    \A a \in seen :
        /\ \A b \in seen :
             /\ (a[2] = b[2]) <=> OnlyLeadingZerosApart(a[1], b[1])
             /\ (a[2] = b[2]) <=> (ParseHex(a[1]) = ParseHex(b[1]))
        /\ Normalize(a[2]) = a[2]
        /\ a[2] \in DOMAIN r_map
        /\ LET same == { b \in seen : ParseHex(b[1]) = ParseHex(a[1]) } IN
             Cardinality({ k \in 1..Len(obs) : <<obs[k].raw, obs[k].r>> \in same })
                = 1 + Len(Get(repeated, a[2], <<>>))

\* 00ab12 and ab12 have been identified, ab1200 has been kept apart
C9_Witness ==
    \E j, k, l \in 1..Len(obs) :
        /\ obs[j].raw = R_00ab12 /\ obs[k].raw = R_ab12 /\ obs[l].raw = R_ab1200
        /\ obs[j].r = obs[k].r
        /\ obs[l].r # obs[k].r
        /\ repeated[obs[j].r] # <<>>

\* C10 as stated: repeated[R] is non-empty only if the observations of R so
\* far come from at least two different transaction ids.
C10_Original ==
    \A R \in DOMAIN repeated :
        repeated[R] # <<>> => Cardinality(TxidsOf(R)) >= 2

\* C10 as amended: repeated[R] is non-empty exactly when R has been observed
\* at least twice, whether or not in different transactions.
C10_Amended ==
    \A R \in ObservedR \cup DOMAIN repeated :
        (R \in DOMAIN repeated /\ repeated[R] # <<>>) <=> Len(ObsOf(R)) >= 2

\* a collision record exists though every observation is of one transaction
C10_Witness ==
    \E R \in DOMAIN repeated :
        /\ repeated[R] # <<>>
        /\ Cardinality(TxidsOf(R)) = 1
        /\ Len(ObsOf(R)) >= 2

-----------------------------------------------------------------------------
(* Properties of extract_r_values (checked under SpecExtract) *)

\* C2 as stated: extract_r_values never raises on a string of hex digits.
C2_NeverRaises == epc # "raised"

\* C4: a script that is one well-formed DER signature, followed by nothing
\* or by bytes not starting with 0x30, yields exactly one r-value: the hex
\* of the r field with its leading "0" characters stripped.
C4_Single ==
    inp.kind = "single" =>
        /\ epc # "raised"
        /\ epc = "done" => rvals = <<LStrip(inp.rs[1])>>

\* a signature with trailing bytes and an r field that starts with a zero
C4_Witness ==
    /\ epc = "done" /\ inp.kind = "single"
    /\ Len(sigscript_hex) > 16 + Len(inp.rs[1])
    /\ Head(inp.rs[1]) = "0"
    /\ rvals = <<LStrip(inp.rs[1])>>
    /\ rvals[1] # inp.rs[1]

\* C5: the concatenation of two well-formed DER signatures yields exactly
\* two r-values: the normalized r of the first, then that of the second.
C5_Double ==
    inp.kind = "double" =>
        /\ epc # "raised"
        /\ epc = "done" => rvals = <<LStrip(inp.rs[1]), LStrip(inp.rs[2])>>

\* two signatures with different r fields have been parsed
C5_Witness ==
    /\ epc = "done" /\ inp.kind = "double"
    /\ Len(rvals) = 2
    /\ rvals[1] # rvals[2]
    /\ i = Len(sigscript_hex)

\* C6 as stated: for a script in the multisig layout (0x00, then each
\* signature behind its push-length byte and before its sighash byte) the
\* r-value of every embedded signature is returned, in script order.
C6_Multisig ==
    (epc = "done" /\ inp.kind = "multisig") =>
        rvals = [j \in 1..Len(inp.rs) |-> LStrip(inp.rs[j])]

-----------------------------------------------------------------------------
(* Properties of get_with_backoff (checked under SpecFetch) *)

\* C3 as stated: when every one of the retries attempts has failed, the call
\* ends by raising; it never returns without a fetched response body.
C3_ExhaustedRaises ==
    (retries >= 1 /\ nfail = retries /\ fpc # "loop") => fpc = "raised"

\* the sum over j = 0..k-1 of min(PAUSE * 2^j, 60)
RECURSIVE BackoffTotal(_, _)
BackoffTotal(p, k) ==
    IF k = 0 THEN 0
    ELSE BackoffTotal(p, k - 1) + Min(p * Pow2(k - 1), DelayCap)

\* C7: if the first k < retries attempts fail and the next one succeeds,
\* the call does not abort and returns that response after exactly k sleeps
\* whose total is the sum over j < k of min(PAUSE * 2^j, 60) (PAUSE <= 60).
C7_Progress ==
    /\ fpc = "raised" => attempt = retries - 1 /\ nfail = retries
    /\ (fpc = "returned" /\ fresult.kind # "None") =>
          /\ nfail = attempt /\ nfail < retries
          /\ nreq = nfail + 1
          /\ Len(slept) = nfail
          /\ fresult = Json
          /\ PAUSE <= DelayCap => SumSeq(slept) = BackoffTotal(PAUSE, nfail)

\* three failures, then success, with the cap reached: 20 + 40 + 60
C7_Witness ==
    /\ fpc = "returned" /\ fresult.kind # "None"
    /\ nfail = 3
    /\ PAUSE = 20
    /\ slept = <<20, 40, 60>>

\* C8 as stated: for every positive PAUSE the j-th delay slept inside one
\* call is min(PAUSE * 2^(j-1), 60), so no delay exceeds 60 seconds.
C8_Original ==
    \A j \in 1..Len(slept) :
        /\ slept[j] = Min(PAUSE * Pow2(j - 1), DelayCap)
        /\ slept[j] <= DelayCap

\* C8 as amended: the first delay is PAUSE itself, whatever its size; the
\* j-th delay for j >= 2 is min(PAUSE * 2^(j-1), 60); no delay exceeds
\* max(PAUSE, 60).
C8_Amended ==
    \A j \in 1..Len(slept) :
        /\ slept[j] = IF j = 1 THEN PAUSE
                      ELSE Min(PAUSE * Pow2(j - 1), DelayCap)
        /\ j > 1 => slept[j] = Min(slept[j - 1] * 2, DelayCap)
        /\ slept[j] <= Max(PAUSE, DelayCap)

\* a first delay above the ceiling, then a capped one
C8_Witness ==
    /\ PAUSE > DelayCap
    /\ Len(slept) >= 2
    /\ slept[1] > DelayCap
    /\ slept[2] = DelayCap

-----------------------------------------------------------------------------
(* Properties of scan_blocks and main (checked under Spec) *)

\* the position of the scan: height, transaction, input, r-value
Cursor == <<h, ti, vi, ri>>

\* the observation the correlator is about to take at the cursor
ObsAtCursor ==
    [raw |-> rraw[ri + 1], r |-> rvals[ri + 1], txid |-> txids[ti + 1],
     ref |-> Get(tx.vin[vi + 1], "txid", "")]

\* how the cursor may move in one step: to the next r-value of the script
\* (taking it as an observation), to the next input once the r-values are
\* exhausted, to the next listed transaction once the inputs are exhausted,
\* to the next height once the transactions are exhausted
CursorStep ==
    \/ /\ Cursor' = Cursor
       /\ obs' = obs
    \/ /\ Cursor' = <<h, ti, vi, ri + 1>>
       /\ ri < Len(rvals)
       /\ obs' = Append(obs, ObsAtCursor)
    \/ /\ Cursor' = <<h, ti, vi + 1, 0>>
       /\ vi < Len(tx.vin) /\ ri = Len(rvals)
       /\ obs' = obs
    \/ /\ Cursor' = <<h, ti + 1, 0, 0>>
       /\ ti < Len(txids) /\ vi = Len(tx.vin)
       /\ obs' = obs
    \/ /\ Cursor' = <<h + 1, 0, 0, 0>>
       /\ h <= END_BLOCK /\ ti = Len(txids)
       /\ Len(paced') = Len(paced) + 1
       /\ obs' = obs

\* the heights of the observations never decrease, every height below h has
\* been completed once, and a scan that returns has completed all of them
HeightsInOrder ==
    /\ h \in START_BLOCK..(END_BLOCK + 1)
    /\ Len(paced) = h - START_BLOCK
    /\ pc \in {"main", "done"} => h = END_BLOCK + 1
    /\ \A j \in 1..Len(obs) : obs[j].txid[1] \in START_BLOCK..h
    /\ \A j \in 1..(Len(obs) - 1) : obs[j].txid[1] <= obs[j + 1].txid[1]

\* an r-value seen once in a block and once in the next block has one
\* collision record, that of the later transaction
TwoBlockScenario ==
    \A R \in ObservedR :
        LET s == ObsOf(R) IN
          (Len(s) = 2 /\ s[2].txid[1] = s[1].txid[1] + 1) =>
              /\ r_map[R] = s[1].txid
              /\ R \in DOMAIN repeated
              /\ repeated[R] = << <<s[2].txid, s[2].ref>> >>

\* C11: scan_blocks visits every height of start..end once, ascending, the
\* transactions of a block in listed order, the inputs of a transaction in
\* supplied order and the r-values of a script in script order; so when r
\* fields normalizing to the same r-value appear in T1 of block N and in T2
\* of block N+1, there is exactly one collision record for it, listing
\* (T2, T2's referenced txid), and T1 is kept only as r_map's first occurrence.
C11_TraversalOrder ==
    /\ [](HeightsInOrder /\ TwoBlockScenario)
    /\ [][CursorStep]_vars

\* the scan of the spec's example has completed: 00ab12 in the first block,
\* ab12 in the second, one record naming the second transaction
C11_Witness ==
    /\ pc = "done"
    /\ Len(obs) = 2
    /\ obs[1].raw = R_00ab12 /\ obs[1].txid = <<START_BLOCK, "a">>
    /\ obs[2].raw = R_ab12 /\ obs[2].txid = <<START_BLOCK + 1, "a">>
    /\ r_map[R_ab12] = <<START_BLOCK, "a">>
    /\ repeated = (R_ab12 :> << <<<<START_BLOCK + 1, "a">>, "P2">> >>)
    /\ output.kind = "file"

\* the r-values observed at least twice so far
ObservedTwice == { R \in ObservedR : Len(ObsOf(R)) >= 2 }

\* the file has one "r=" header per r-value of S and, right after the header
\* of R, one "seen in" line per repeat of R, in scan order
WellFormedFile(lines, S) ==
    /\ \A R \in S :
         Cardinality({ j \in 1..Len(lines) :
                         lines[j].line = "r=" /\ lines[j].r = R }) = 1
    /\ Len(lines) > 0 => lines[1].line = "r="
    /\ \A j \in 1..Len(lines) :
         lines[j].line = "r=" =>
             /\ lines[j].r \in S
             /\ LET rest == PairsOf(Tail(ObsOf(lines[j].r)))
                    n == Len(rest)
                IN /\ j + n <= Len(lines)
                   /\ \A k \in 1..n :
                        /\ lines[j + k].line = "seen in"
                        /\ lines[j + k].pair = rest[k]
                   /\ j + n < Len(lines) => lines[j + n + 1].line = "r="

\* C12: after a scan that completes, main reports "no reused r-values" and
\* writes no file iff no r-value was observed more than once; otherwise it
\* writes exactly one "r=" header per r-value observed more than once, each
\* followed by one line per repeat.  The returned mapping has a key R exactly
\* when R was observed at least twice and never holds an empty list.
C12_Outcome ==
    /\ pc \in {"main", "done"} =>
          /\ DOMAIN repeated = ObservedTwice
          /\ \A R \in DOMAIN repeated : repeated[R] # <<>>
    /\ pc = "done" =>
          /\ output.kind \in {"no_reuse", "file"}
          /\ output.kind = "no_reuse" <=> ObservedTwice = {}
          /\ output.kind = "no_reuse" => output.lines = <<>>
          /\ output.kind = "file" => WellFormedFile(output.lines, ObservedTwice)

\* a scan of every height has completed with observations, none repeated
C12_Witness ==
    /\ pc = "done"
    /\ output.kind = "no_reuse"
    /\ obs # <<>>
    /\ Len(paced) = NumBlocks
    /\ repeated = <<>>

\* the current get_with_backoff call has used up its attempts without success
Exhausted == fpc # "idle" /\ retries >= 1 /\ nfail = retries

\* what a step may do once the fetch is exhausted, and after the crash
FatalStep ==
    /\ Exhausted =>
          /\ UNCHANGED <<h, block_hash, txids, ti, tx, vi, ri, r_map,
                         repeated, rep_keys, obs, served, paced, output>>
          /\ UNCHANGED extractVars
          /\ nreq' <= nreq
          /\ IF fpc = "loop" THEN pc' = pc /\ fpc' = "returned"
                             ELSE pc' = "crashed" /\ fpc' = "idle"
    /\ pc = "crashed" => UNCHANGED vars

\* C13: when a get_with_backoff call made by scan_blocks uses up all its
\* attempts without success (the last failure an error or an HTTP 429),
\* scan_blocks ends with an error without processing any further input,
\* transaction or height and without a further request, and main writes no
\* output file, whatever collisions had been recorded.
C13_FatalFetch ==
    /\ [](pc = "crashed" => output = NoOutput)
    /\ [](Exhausted => fpc = "raised" \/ fresult = None)
    /\ [][FatalStep]_vars

\* the scan has ended in a transaction fetch of the second block that failed,
\* with a collision already recorded and nothing written
C13_Witness ==
    /\ pc = "crashed"
    /\ h = START_BLOCK + 1 /\ ti < Len(txids) /\ tx = None
    /\ DOMAIN repeated # {}
    /\ output = NoOutput

\* the input at the cursor has an empty signature script or none
NoScriptAtCursor ==
    /\ pc = "for_vin" /\ vi < Len(tx.vin)
    /\ \/ "scriptsig" \notin DOMAIN tx.vin[vi + 1]
       \/ tx.vin[vi + 1].scriptsig = <<>>

\* C14: an input whose signature script is empty or missing produces no
\* observation and is not an error: the step that processes it leaves r_map
\* and repeated (and everything but the input cursor) unchanged, calls
\* neither the extractor nor the network, and moves to the next input.
C14_NoScriptFrame ==
    [][NoScriptAtCursor =>
          /\ vi' = vi + 1
          /\ pc' = "for_vin"
          /\ UNCHANGED <<r_map, repeated, rep_keys, obs, output>>
          /\ UNCHANGED <<h, block_hash, txids, ti, tx, ri, served, paced>>
          /\ UNCHANGED <<PAUSE, fetchVars, extractVars>>]_vars

\* a transaction whose inputs are one with an empty script and one with no
\* script has been passed without an observation
C14_Witness ==
    /\ pc = "for_vin" /\ vi = 2 /\ Len(tx.vin) >= 2
    /\ "scriptsig" \in DOMAIN tx.vin[1] /\ tx.vin[1].scriptsig = <<>>
    /\ "scriptsig" \notin DOMAIN tx.vin[2]
    /\ obs = <<>> /\ r_map = <<>> /\ repeated = <<>>

\* the tables agree with the observations taken so far
TablesConsistent ==
    /\ DOMAIN repeated \subseteq DOMAIN r_map
    /\ DOMAIN r_map = ObservedR
    /\ \A R \in DOMAIN r_map :
         Len(Get(repeated, R, <<>>)) = Len(ObsOf(R)) - 1

\* a step keeps every entry of r_map and extends the lists of repeated at
\* their end only
TablesGrow ==
    /\ \A R \in DOMAIN r_map :
         R \in DOMAIN r_map' /\ r_map'[R] = r_map[R]
    /\ \A R \in DOMAIN repeated :
         /\ R \in DOMAIN repeated'
         /\ Len(repeated'[R]) >= Len(repeated[R])
         /\ SubSeq(repeated'[R], 1, Len(repeated[R])) = repeated[R]

\* C16: in every reachable state of a scan, also one in which the scan was
\* cut short, r_map[R] once set is never changed or removed, every list
\* repeated[R] only grows by appending at its end, every key of repeated is
\* a key of r_map, and Len(repeated[R]) is the number of observations of R
\* so far minus one.
C16_AppendOnly ==
    /\ []TablesConsistent
    /\ [][TablesGrow]_vars

\* a scan cut short by an error after an r-value had been seen three times
\* and another one once
C16_Witness ==
    /\ pc = "crashed"
    /\ Cardinality(DOMAIN r_map) >= 2
    /\ \E R \in DOMAIN repeated : Len(repeated[R]) >= 2
    /\ \E R \in DOMAIN r_map : R \notin DOMAIN repeated

\* a bound on the steps the current get_with_backoff call can still take
FetchRemaining ==
    IF fpc = "loop" THEN 1 + (retries - attempt) ELSE 0

\* what a step of, into or out of a get_with_backoff call may do
FetchStep ==
    /\ fpc = "loop" =>
          /\ fpc' \in {"loop", "returned", "raised"}
          /\ FetchRemaining' < FetchRemaining
          /\ nreq' <= nreq + 1
          /\ IF fpc' = "returned" /\ fresult' = Json
             THEN slept' = slept /\ delay' = delay /\ paced' = paced
             ELSE /\ nfail' = nfail + (nreq' - nreq)
                  /\ \/ slept' = slept
                     \/ slept' = Append(slept, delay) /\ nreq' = nreq + 1
    /\ (fpc # "loop" /\ fpc' = "loop") =>
          /\ delay' = PAUSE
          /\ attempt' = 0 /\ nreq' = 0 /\ slept' = <<>>
          /\ retries' = DefaultRetries
    /\ fpc \in {"returned", "raised"} => fpc' \in {"idle", "loop"}
    /\ paced' # paced => paced' = Append(paced, PAUSE) /\ fpc = "idle"

\* C19: one get_with_backoff call issues at most `retries` (here the default,
\* 10) requests and always ends; it sleeps only after a failed attempt,
\* never after a successful one; its delay starts again from PAUSE in every
\* new call, whatever the previous call had backed off to, and the pause
\* after a block is PAUSE.
C19_RetryBudget ==
    /\ [](/\ nreq <= retries /\ attempt <= retries
          /\ FetchRemaining >= 0
          /\ Len(slept) <= nfail /\ nfail <= nreq
          /\ (fpc = "returned" /\ fresult = Json) =>
                (nreq = nfail + 1 /\ Len(slept) = nfail)
          /\ \A j \in 1..Len(paced) : paced[j] = PAUSE
          /\ Len(slept) > 0 => slept[1] = PAUSE)
    /\ [][FetchStep]_vars

\* a fetch of the second block that answered after two failures slept
\* 1 and 2 seconds, though a block and its pause lie behind
C19_Witness ==
    /\ h = START_BLOCK + 1 /\ paced = <<PAUSE>>
    /\ url = "tx" /\ fpc = "returned" /\ fresult = Json
    /\ nreq = 3 /\ nfail = 2
    /\ slept = <<PAUSE, 2 * PAUSE>>
    /\ retries = DefaultRetries

-----------------------------------------------------------------------------
(* Further properties of extract_r_values (checked under SpecExtract) *)

\* the hex characters the INTEGER at the cursor declares for its r field
DeclaredRLen(s, c) == ParseHex(RLenField(Der(s, c))) * 2

\* C15 as stated: every r-value yielded is the normalization of exactly as
\* many bytes as the INTEGER's length byte declares, all of them inside the
\* script and inside the declared SEQUENCE span; when fewer bytes are
\* available, no r-value built from a shorter byte range is yielded.
C15_DeclaredBytes ==
    [][rvals' # rvals =>
          LET n == DeclaredRLen(sigscript_hex, i) IN
            /\ Len(rraw') = Len(rraw) + 1
            /\ Len(rraw'[Len(rraw')]) = n
            /\ rvals' = Append(rvals, LStrip(rraw'[Len(rraw')]))
            /\ i + 8 + n <= Len(sigscript_hex)
            /\ 8 + n <= 4 + TotalLen(sigscript_hex, i)]_vars

\* what the call has produced once it is over
Outcome ==
    IF epc = "raised" THEN [ok |-> FALSE, rs |-> <<>>]
    ELSE [ok |-> TRUE, rs |-> rvals]

\* s is a concatenation of complete SEQUENCEs: each a tag 0x30, a length
\* byte L and L content bytes, all present
RECURSIVE IsSequences(_)
IsSequences(s) ==
    \/ s = <<>>
    \/ /\ Len(s) >= 4
       /\ TagOk(s, 0)
       /\ 4 + TotalLen(s, 0) <= Len(s)
       /\ IsSequences(SubSeq(s, 5 + TotalLen(s, 0), Len(s)))

\* the places where the script splits into S ++ X, S one or more complete
\* SEQUENCEs and X beginning with a byte that is not 0x30
StopPoints(s) ==
    { c \in 1..(Len(s) - 1) :
        ~TagOk(s, c) /\ IsSequences(SubSeq(s, 1, c)) }

\* C17: extract_r_values stops at the first cursor position whose byte is
\* not 0x30 and yields no r-value from there on; a script whose first byte
\* is not 0x30 yields the empty list; and extract(S ++ X) = extract(S) when S
\* is a concatenation of complete SEQUENCEs and X starts with another byte.
C17_StopRule ==
    /\ [][(epc = "loop" /\ ~TagOk(sigscript_hex, i)) =>
             (epc' = "done" /\ rvals' = rvals /\ i' = i)]_vars
    /\ [][(epc = "done" \/ epc = "raised") => UNCHANGED vars]_vars
    /\ [](~TagOk(sigscript_hex, 0) => (rvals = <<>> /\ epc # "raised"))
    /\ [](epc \in {"done", "raised"} =>
             \A c \in StopPoints(sigscript_hex) :
                 Outcome = extract_r_values(SubSeq(sigscript_hex, 1, c)))

\* a signature followed by bytes that hold a 0x30 further on: the scan has
\* stopped right behind the signature with its one r-value
C17_Witness ==
    /\ epc = "done" /\ inp.kind = "single"
    /\ i \in StopPoints(sigscript_hex)
    /\ Len(rvals) = 1
    /\ \E c \in (i + 1)..(Len(sigscript_hex) - 2) : TagOk(sigscript_hex, c)

\* the iterations the loop has completed when the cursor is at `target`
RECURSIVE StepsTo(_, _, _)
StepsTo(s, c, target) ==
    IF c >= target THEN 0 ELSE 1 + StepsTo(s, Advance(s, c), target)

Iterations == StepsTo(sigscript_hex, 0, i)

\* the value of the length byte behind the tag at the cursor
LengthByte == ParseHex(Slice(sigscript_hex, i + 2, i + 4))

\* a bound on the steps the call can still take: every step lowers it, so
\* no run of the call is infinite
Remaining ==
    IF epc = "loop" THEN 1 + Max(Len(sigscript_hex) - i, 0) ELSE 0

\* C18: extract_r_values terminates on every input: an iteration advances
\* the cursor by tag + length byte + L content bytes (2 + 2 + 2L hex
\* characters, at least 4, also when L = 0), the cursor never moves
\* backwards, the loop ends as soon as the guard fails, and the iterations
\* and the r-values yielded number at most len(script) / 4.
C18_Terminates ==
    /\ [][i' # i =>
             /\ epc = "loop" /\ i + 4 < Len(sigscript_hex)
             /\ i' = i + 2 + 2 + 2 * LengthByte
             /\ i' >= i + 4
             /\ Iterations' = Iterations + 1
             /\ 4 * Iterations' <= Len(sigscript_hex)
             /\ Len(rvals') <= Iterations']_vars
    /\ [][(epc = "loop" /\ ~(i + 4 < Len(sigscript_hex))) =>
             (epc' = "done" /\ i' = i /\ rvals' = rvals)]_vars
    /\ [][Remaining' < Remaining]_vars
    /\ [](Remaining >= 0 /\ 4 * Len(rvals) <= Len(sigscript_hex))

\* a SEQUENCE of declared length 0 has been passed: the cursor moved by the
\* four characters of its header and the call has returned
C18_Witness ==
    /\ epc = "done"
    /\ Len(sigscript_hex) > 4
    /\ TotalLen(sigscript_hex, 0) = 0
    /\ i = 4 /\ Iterations = 1
    /\ rvals = <<>>

====
